---- MODULE Spec2Model ----
(***************************************************************************)
(* The rule engine of script.js (guideline Tetris): board, 7-bag, spawn,   *)
(* move, rotate (SRS kicks), hold, hard drop, lock, line clear, scoring,   *)
(* and the per-frame timing driver, together with the event sources that   *)
(* call into it: keyboard events, the touch buttons, the animation frame   *)
(* and the timeout that clearLines schedules.                              *)
(*                                                                         *)
(* gameState and input are the two objects of the same name in the source; *)
(* timeouts is the browser's queue of pending setTimeout callbacks; count   *)
(* counts the session's locks and the resets, to bound the model; draws    *)
(* records the draws from the bag where getNextPiece is run on its own.    *)
(* Every function of the source is an operator of the same name that takes *)
(* the objects it reads and returns the objects it writes.                 *)
(***************************************************************************)
EXTENDS Integers, Sequences, FiniteSets, TLC

VARIABLES gameState, input, timeouts, count, draws

vars == <<gameState, input, timeouts, count, draws>>

(***************************************************************************)
(* Bounds of the model.  The source fixes the board at 20 rows of 10       *)
(* columns; every function of the engine is written in terms of ROWS and   *)
(* COLS, and the model runs the same code on a narrower, lower board.      *)
(***************************************************************************)
COLS == 4
ROWS == 4
\* pieces locked per session
MaxLocks == 2
\* resets per behaviour
MaxResets == 1
\* pending clearLines timeouts
MaxTimeouts == 2
\* pieces locked in the specification that builds rows (SpecClear)
MaxClearLocks == 3

\* draws from the bag in the specification of the bag (SpecBag): two blocks
MaxDraws == 14

\* locks scored in the specification of the scoring (SpecScore)
MaxScoredLocks == 4

(***************************************************************************)
(* Program constants.                                                      *)
(***************************************************************************)
SPAWN_ROW == 2
DAS_DELAY == 150
ARR_DELAY == 33
SOFT_DROP_MULTIPLIER == 20
LOCK_DELAY == 500
MAX_LOCK_RESETS == 15
CLEAR_DELAY == 150

SCORES ==
    [SINGLE |-> 100, DOUBLE |-> 300, TRIPLE |-> 500, TETRIS |-> 800,
     TSPIN_MINI |-> 100, TSPIN_MINI_DOUBLE |-> 200,
     TSPIN_SINGLE |-> 800, TSPIN_DOUBLE |-> 1200, TSPIN_TRIPLE |-> 1600,
     SOFT_DROP |-> 1, HARD_DROP |-> 2, COMBO_BONUS |-> 50]

LEVEL_SPEEDS ==
    <<1000, 793, 618, 473, 355, 262, 190, 135, 94, 64,
      43, 28, 18, 11, 7, 4, 3, 2, 1, 1>>

TETROMINOS ==
    [I |-> << <<1,1,1,1>> >>,
     O |-> << <<1,1>>, <<1,1>> >>,
     T |-> << <<0,1,0>>, <<1,1,1>> >>,
     S |-> << <<0,1,1>>, <<1,1,0>> >>,
     Z |-> << <<1,1,0>>, <<0,1,1>> >>,
     J |-> << <<1,0,0>>, <<1,1,1>> >>,
     L |-> << <<0,0,1>>, <<1,1,1>> >>]

PIECE_TYPES == <<"I", "O", "T", "S", "Z", "J", "L">>

PieceKinds == {PIECE_TYPES[i] : i \in 1..Len(PIECE_TYPES)}

\* SRS_KICKS.STANDARD, keyed by <<from, to>> for the source's 'from->to'
SRS_KICKS_STANDARD ==
    (<<0,1>> :> << <<-1,0>>, <<-1,-1>>, <<0,2>>, <<-1,2>> >>) @@
    (<<1,0>> :> << <<1,0>>, <<1,1>>, <<0,-2>>, <<1,-2>> >>) @@
    (<<1,2>> :> << <<1,0>>, <<1,1>>, <<0,-2>>, <<1,-2>> >>) @@
    (<<2,1>> :> << <<-1,0>>, <<-1,-1>>, <<0,2>>, <<-1,2>> >>) @@
    (<<2,3>> :> << <<1,0>>, <<1,-1>>, <<0,2>>, <<1,2>> >>) @@
    (<<3,2>> :> << <<-1,0>>, <<-1,1>>, <<0,-2>>, <<-1,-2>> >>) @@
    (<<3,0>> :> << <<-1,0>>, <<-1,1>>, <<0,-2>>, <<-1,-2>> >>) @@
    (<<0,3>> :> << <<1,0>>, <<1,-1>>, <<0,2>>, <<1,2>> >>)

\* SRS_KICKS.I
SRS_KICKS_I ==
    (<<0,1>> :> << <<-2,0>>, <<1,0>>, <<-2,1>>, <<1,-2>> >>) @@
    (<<1,0>> :> << <<2,0>>, <<-1,0>>, <<2,-1>>, <<-1,2>> >>) @@
    (<<1,2>> :> << <<-1,0>>, <<2,0>>, <<-1,-2>>, <<2,1>> >>) @@
    (<<2,1>> :> << <<1,0>>, <<-2,0>>, <<1,2>>, <<-2,-1>> >>) @@
    (<<2,3>> :> << <<2,0>>, <<-1,0>>, <<2,-1>>, <<-1,2>> >>) @@
    (<<3,2>> :> << <<-2,0>>, <<1,0>>, <<-2,1>>, <<1,-2>> >>) @@
    (<<3,0>> :> << <<1,0>>, <<-2,0>>, <<1,2>>, <<-2,-1>> >>) @@
    (<<0,3>> :> << <<-1,0>>, <<2,0>>, <<-1,-2>>, <<2,1>> >>)

\* the value of a variable that holds no piece (null in the source)
NoPiece == [type |-> "none", x |-> 0, y |-> 0, rotation |-> 0]

EmptyBoard == [i \in 0..(ROWS * COLS - 1) |-> 0]

(***************************************************************************)
(* The random source.  shuffle draws j = floor(random() * (i + 1)) for     *)
(* i = 6, 5, ..., 1; a stream is the sequence of the six j it draws,       *)
(* js[i] in 0..i.                                                          *)
(***************************************************************************)
AllStreams ==
    {js \in [1..(Len(PIECE_TYPES) - 1) -> 0..(Len(PIECE_TYPES) - 1)] :
        \A i \in DOMAIN js : js[i] <= i}

\* array with the elements at (0-based) positions i and j exchanged
Swap(array, i, j) ==
    [k \in DOMAIN array |->
        IF k = i + 1 THEN array[j + 1]
        ELSE IF k = j + 1 THEN array[i + 1]
        ELSE array[k]]

RECURSIVE shuffleFrom(_, _, _)
shuffleFrom(array, js, i) ==
    IF i <= 0 THEN array
    ELSE shuffleFrom(Swap(array, i, js[i]), js, i - 1)

shuffle(array, js) == shuffleFrom(array, js, Len(array) - 1)

\* fault injected for C3: the draw reads the last piece of the bag and leaves
\* it there
getNextPieceKeepsPiece(gs, js) ==
    LET bag == IF Len(gs.bag) = 0 THEN shuffle(PIECE_TYPES, js) ELSE gs.bag
    IN  [gs |-> [gs EXCEPT !.bag = bag], piece |-> bag[Len(bag)]]

\* getNextPiece: the bag after the draw, and the piece drawn (bag.pop())
getNextPiece(gs, js) ==
    LET bag == IF Len(gs.bag) = 0 THEN shuffle(PIECE_TYPES, js) ELSE gs.bag
    IN  [gs |-> [gs EXCEPT !.bag = SubSeq(bag, 1, Len(bag) - 1)],
         piece |-> bag[Len(bag)]]

(***************************************************************************)
(* Shapes and collision.                                                   *)
(***************************************************************************)
rotateMatrixCW(matrix) ==
    LET rows == Len(matrix)
        cols == Len(matrix[1])
    IN  [x \in 1..cols |-> [y \in 1..rows |-> matrix[rows - y + 1][x]]]

RECURSIVE rotateTimes(_, _)
rotateTimes(matrix, n) ==
    IF n <= 0 THEN matrix ELSE rotateTimes(rotateMatrixCW(matrix), n - 1)

\* the loop of getRotatedMatrix, evaluated once for every kind and rotation
RotatedMatrices ==
    [pieceType \in PieceKinds |->
        [rotation \in 0..3 |-> rotateTimes(TETROMINOS[pieceType], rotation)]]

getRotatedMatrix(pieceType, rotation) == RotatedMatrices[pieceType][rotation]

\* the cells <<px, py>> (0-based) a matrix sets: the tests of matrix[py][px]
\* in the loops of isValidPosition and lockPiece
MatrixCells(matrix) ==
    {c \in (0..(Len(matrix[1]) - 1)) \X (0..(Len(matrix) - 1)) :
        matrix[c[2] + 1][c[1] + 1] # 0}

PieceCells ==
    [pieceType \in PieceKinds |->
        [rotation \in 0..3 |-> MatrixCells(getRotatedMatrix(pieceType, rotation))]]

isValidPosition(board, x, y, rotation, pieceType) ==
    \A c \in PieceCells[pieceType][rotation] :
        LET nx == x + c[1]
            ny == y + c[2]
        IN  /\ ~(nx < 0 \/ nx >= COLS \/ ny >= ROWS)
            /\ ~(ny >= 0 /\ board[ny * COLS + nx] # 0)

getColorIndex(pieceType) ==
    CHOOSE i \in 1..Len(PIECE_TYPES) : PIECE_TYPES[i] = pieceType

(***************************************************************************)
(* Spawn and reset.                                                        *)
(***************************************************************************)
\* fault injected for C28: the piece is spawned one row lower, with the lower
\* row of its matrix in row 0 of the board
spawnPieceOnBoard(gs, js) ==
    LET pieceType == Head(gs.nextPieces)
        drawn == getNextPiece([gs EXCEPT !.nextPieces = Tail(gs.nextPieces)], js)
        x == (COLS \div 2) - 2
        y == 1 - SPAWN_ROW
        g1 == [drawn.gs EXCEPT
                 !.nextPieces = Append(drawn.gs.nextPieces, drawn.piece),
                 !.currentPiece = [type |-> pieceType, x |-> x, y |-> y,
                                   rotation |-> 0],
                 !.canHold = TRUE,
                 !.lockTimer = 0,
                 !.lockResets = 0,
                 !.isLocked = FALSE]
    IN  IF ~isValidPosition(g1.board, x, y, 0, pieceType)
        THEN [g1 EXCEPT !.gameOver = TRUE]
        ELSE g1

spawnPiece(gs, js) ==
    LET pieceType == Head(gs.nextPieces)
        drawn == getNextPiece([gs EXCEPT !.nextPieces = Tail(gs.nextPieces)], js)
        x == (COLS \div 2) - 2
        y == -SPAWN_ROW
        g1 == [drawn.gs EXCEPT
                 !.nextPieces = Append(drawn.gs.nextPieces, drawn.piece),
                 !.currentPiece = [type |-> pieceType, x |-> x, y |-> y,
                                   rotation |-> 0],
                 !.canHold = TRUE,
                 !.lockTimer = 0,
                 !.lockResets = 0,
                 !.isLocked = FALSE]
    IN  IF ~isValidPosition(g1.board, x, y, 0, pieceType)
        THEN [g1 EXCEPT !.gameOver = TRUE]
        ELSE g1

\* the loop of reset: n times nextPieces.push(getNextPiece())
RECURSIVE pushNextPieces(_, _, _)
pushNextPieces(gs, js, n) ==
    IF n <= 0 THEN gs
    ELSE LET drawn == getNextPiece(gs, js)
         IN  pushNextPieces(
                 [drawn.gs EXCEPT
                    !.nextPieces = Append(drawn.gs.nextPieces, drawn.piece)],
                 js, n - 1)

reset(gs, js) ==
    LET g0 == [gs EXCEPT
                 !.board = EmptyBoard,
                 !.currentPiece = NoPiece,
                 !.holdPiece = "none",
                 !.canHold = TRUE,
                 !.nextPieces = <<>>,
                 !.bag = <<>>,
                 !.score = 0,
                 !.level = 1,
                 !.lines = 0,
                 !.combo = -1,
                 !.b2b = FALSE,
                 !.lastWasSpecial = FALSE,
                 !.gameOver = FALSE,
                 !.paused = FALSE,
                 !.dropTimer = 0,
                 !.lockTimer = 0,
                 !.lockResets = 0,
                 !.isLocked = FALSE]
    IN  spawnPiece(pushNextPieces(g0, js, 5), js)

\* the gameState literal the script starts from, before init() runs
InitialGameState ==
    [board |-> EmptyBoard, currentPiece |-> NoPiece, holdPiece |-> "none",
     canHold |-> TRUE, nextPieces |-> <<>>, bag |-> <<>>, score |-> 0,
     highScore |-> 0, level |-> 1, lines |-> 0, combo |-> -1, b2b |-> FALSE,
     lastWasSpecial |-> FALSE, gameOver |-> FALSE, paused |-> FALSE,
     dropTimer |-> 0, lockTimer |-> 0, lockResets |-> 0, isLocked |-> FALSE]

InitialInput ==
    [leftTime |-> 0, rightTime |-> 0, downTime |-> 0,
     leftPressed |-> FALSE, rightPressed |-> FALSE, downPressed |-> FALSE]

(***************************************************************************)
(* Move, rotate, lock timer.                                               *)
(***************************************************************************)
\* fault injected for C8: the reset is granted without the budget test
resetLockTimerNoBudget(gs) ==
    [gs EXCEPT !.lockTimer = 0,
               !.lockResets = gs.lockResets + 1,
               !.isLocked = FALSE]

resetLockTimer(gs) ==
    IF gs.lockResets < MAX_LOCK_RESETS
    THEN [gs EXCEPT !.lockTimer = 0,
                    !.lockResets = gs.lockResets + 1,
                    !.isLocked = FALSE]
    ELSE gs

\* fault injected for C15: a grounded piece has its lock timer reset by a
\* move that collides
movePieceResetsWhenBlocked(gs, dx) ==
    IF gs.currentPiece = NoPiece \/ gs.gameOver \/ gs.paused THEN gs
    ELSE LET newX == gs.currentPiece.x + dx
             g1 == IF isValidPosition(gs.board, newX, gs.currentPiece.y,
                                      gs.currentPiece.rotation, gs.currentPiece.type)
                   THEN [gs EXCEPT !.currentPiece.x = newX]
                   ELSE gs
         IN  IF g1.isLocked THEN resetLockTimer(g1) ELSE g1

movePiece(gs, dx) ==
    IF gs.currentPiece = NoPiece \/ gs.gameOver \/ gs.paused THEN gs
    ELSE LET newX == gs.currentPiece.x + dx
         IN  IF isValidPosition(gs.board, newX, gs.currentPiece.y,
                                gs.currentPiece.rotation, gs.currentPiece.type)
             THEN LET g1 == [gs EXCEPT !.currentPiece.x = newX]
                  IN  IF g1.isLocked THEN resetLockTimer(g1) ELSE g1
             ELSE gs

\* kickTable[kickKey] || [[0, 0]]
Kicks(pieceType, from, to) ==
    LET kickTable == IF pieceType = "I" THEN SRS_KICKS_I ELSE SRS_KICKS_STANDARD
    IN  IF <<from, to>> \in DOMAIN kickTable
        THEN kickTable[<<from, to>>]
        ELSE << <<0, 0>> >>

\* fault injected for C14: the rotation is committed in place, untested
rotatePieceUntested(gs, direction) ==
    IF gs.currentPiece = NoPiece \/ gs.gameOver \/ gs.paused THEN gs
    ELSE LET piece == gs.currentPiece
             newRotation == IF direction = 2
                            THEN (piece.rotation + 2) % 4
                            ELSE (piece.rotation + direction + 4) % 4
             g1 == [gs EXCEPT !.currentPiece.rotation = newRotation]
         IN  IF g1.isLocked THEN resetLockTimer(g1) ELSE g1

rotatePiece(gs, direction) ==
    IF gs.currentPiece = NoPiece \/ gs.gameOver \/ gs.paused THEN gs
    ELSE LET piece == gs.currentPiece
             newRotation == IF direction = 2
                            THEN (piece.rotation + 2) % 4
                            ELSE (piece.rotation + direction + 4) % 4
             tests == << <<0, 0>> >> \o Kicks(piece.type, piece.rotation, newRotation)
             ok(i) == isValidPosition(gs.board, piece.x + tests[i][1],
                                      piece.y + tests[i][2], newRotation, piece.type)
             hits == {i \in DOMAIN tests : ok(i)}
         IN  IF hits = {} THEN gs
             ELSE LET i == CHOOSE k \in hits : \A m \in hits : k <= m
                      g1 == [gs EXCEPT
                               !.currentPiece.x = piece.x + tests[i][1],
                               !.currentPiece.y = piece.y + tests[i][2],
                               !.currentPiece.rotation = newRotation]
                  IN  IF g1.isLocked THEN resetLockTimer(g1) ELSE g1

softDropPiece(gs) ==
    IF gs.currentPiece = NoPiece THEN [gs |-> gs, moved |-> FALSE]
    ELSE LET newY == gs.currentPiece.y + 1
         IN  IF isValidPosition(gs.board, gs.currentPiece.x, newY,
                                gs.currentPiece.rotation, gs.currentPiece.type)
             THEN [gs |-> [gs EXCEPT !.currentPiece.y = newY], moved |-> TRUE]
             ELSE [gs |-> gs, moved |-> FALSE]

\* the loop of getGhostPosition:
\* while (isValidPosition(piece.x, ghostY + 1, piece.rotation)) ghostY++
RECURSIVE ghostRow(_, _, _)
ghostRow(board, piece, ghostY) ==
    IF isValidPosition(board, piece.x, ghostY + 1, piece.rotation, piece.type)
    THEN ghostRow(board, piece, ghostY + 1)
    ELSE ghostY

getGhostPosition(gs) ==
    IF gs.currentPiece = NoPiece THEN NoPiece
    ELSE [x |-> gs.currentPiece.x,
          y |-> ghostRow(gs.board, gs.currentPiece, gs.currentPiece.y),
          rotation |-> gs.currentPiece.rotation]

(***************************************************************************)
(* Lock, T-Spin, line clear, scoring.                                      *)
(***************************************************************************)
\* the filled test of checkTSpin for the corner <<x, y>>
CornerFilled(board, corner) ==
    LET x == corner[1]
        y == corner[2]
    IN  x < 0 \/ x >= COLS \/ y >= ROWS \/ (y >= 0 /\ board[y * COLS + x] # 0)

\* fault injected for C19: two filled corners are taken for a T-Spin
checkTSpinTwoCorners(board, piece) ==
    IF piece.type # "T" THEN [isTSpin |-> FALSE, isMini |-> FALSE]
    ELSE LET corners == << <<piece.x, piece.y>>, <<piece.x + 2, piece.y>>,
                           <<piece.x, piece.y + 2>>, <<piece.x + 2, piece.y + 2>> >>
             filledCorners == Cardinality({i \in 1..4 : CornerFilled(board, corners[i])})
             isTSpin == filledCorners >= 2
             frontCorners == IF piece.rotation = 0 THEN {3, 4}
                             ELSE IF piece.rotation = 1 THEN {1, 3}
                             ELSE IF piece.rotation = 2 THEN {1, 2}
                             ELSE {2, 4}
             frontFilled == Cardinality({i \in frontCorners : CornerFilled(board, corners[i])})
         IN  [isTSpin |-> isTSpin, isMini |-> isTSpin /\ frontFilled # 2]

checkTSpin(board, piece) ==
    IF piece.type # "T" THEN [isTSpin |-> FALSE, isMini |-> FALSE]
    ELSE LET corners == << <<piece.x, piece.y>>, <<piece.x + 2, piece.y>>,
                           <<piece.x, piece.y + 2>>, <<piece.x + 2, piece.y + 2>> >>
             filledCorners == Cardinality({i \in 1..4 : CornerFilled(board, corners[i])})
             isTSpin == filledCorners >= 3
             frontCorners == IF piece.rotation = 0 THEN {3, 4}
                             ELSE IF piece.rotation = 1 THEN {1, 3}
                             ELSE IF piece.rotation = 2 THEN {1, 2}
                             ELSE {2, 4}
             frontFilled == Cardinality({i \in frontCorners : CornerFilled(board, corners[i])})
         IN  [isTSpin |-> isTSpin, isMini |-> isTSpin /\ frontFilled # 2]

\* the rows clearLines finds full, top to bottom (linesToClear)
FullRows(board) ==
    LET full(y) == \A x \in 0..(COLS - 1) : board[y * COLS + x] # 0
        RECURSIVE scan(_)
        scan(y) == IF y >= ROWS THEN <<>>
                   ELSE (IF full(y) THEN <<y>> ELSE <<>>) \o scan(y + 1)
    IN  scan(0)

\* clearLines changes no state when it is called: it returns the number of
\* full rows and, when there is one, schedules the callback that removes them
clearLines(board) ==
    LET linesToClear == FullRows(board)
    IN  [count |-> Len(linesToClear),
         sched |-> IF Len(linesToClear) = 0 THEN <<>> ELSE <<linesToClear>>]

\* the body of the callback's loop for one clearY: rows 1..clearY take the
\* row above, row 0 is emptied
shiftDown(board, clearY) ==
    [i \in DOMAIN board |->
        IF i \div COLS = 0 THEN 0
        ELSE IF i \div COLS <= clearY THEN board[i - COLS]
        ELSE board[i]]

\* the callback clearLines hands to setTimeout:
\* for (let clearY of linesToClear.reverse()) { ... }
RECURSIVE clearLinesCallback(_, _)
clearLinesCallback(board, linesToClear) ==
    IF Len(linesToClear) = 0 THEN board
    ELSE clearLinesCallback(
             shiftDown(board, linesToClear[Len(linesToClear)]),
             SubSeq(linesToClear, 1, Len(linesToClear) - 1))

\* Math.floor(baseScore * SCORES.B2B_MULTIPLIER), the multiplier being 1.5
B2B(baseScore) == (baseScore * 3) \div 2

\* fault injected for C11: the combo bonus is taken from the combo as it was
\* before the increment
calculateScoreOldCombo(gs, linesCleared, tSpinInfo) ==
    LET base0 ==
            IF tSpinInfo.isTSpin
            THEN IF tSpinInfo.isMini
                 THEN (IF linesCleared = 1 THEN SCORES.TSPIN_MINI
                       ELSE SCORES.TSPIN_MINI_DOUBLE)
                 ELSE (IF linesCleared = 1 THEN SCORES.TSPIN_SINGLE
                       ELSE IF linesCleared = 2 THEN SCORES.TSPIN_DOUBLE
                       ELSE SCORES.TSPIN_TRIPLE)
            ELSE (IF linesCleared = 1 THEN SCORES.SINGLE
                  ELSE IF linesCleared = 2 THEN SCORES.DOUBLE
                  ELSE IF linesCleared = 3 THEN SCORES.TRIPLE
                  ELSE SCORES.TETRIS)
        isSpecial == IF tSpinInfo.isTSpin THEN TRUE ELSE linesCleared = 4
        b2b == isSpecial /\ gs.lastWasSpecial
        baseScore == IF b2b THEN B2B(base0) ELSE base0
        comboBonus == IF gs.combo > 0 THEN SCORES.COMBO_BONUS * gs.combo ELSE 0
        score == gs.score + (baseScore + comboBonus) * gs.level
    IN  [gs EXCEPT !.b2b = b2b,
                   !.lastWasSpecial = isSpecial,
                   !.combo = gs.combo + 1,
                   !.score = score,
                   !.highScore = IF score > gs.highScore THEN score ELSE gs.highScore]

calculateScore(gs, linesCleared, tSpinInfo) ==
    LET base0 ==
            IF tSpinInfo.isTSpin
            THEN IF tSpinInfo.isMini
                 THEN (IF linesCleared = 1 THEN SCORES.TSPIN_MINI
                       ELSE SCORES.TSPIN_MINI_DOUBLE)
                 ELSE (IF linesCleared = 1 THEN SCORES.TSPIN_SINGLE
                       ELSE IF linesCleared = 2 THEN SCORES.TSPIN_DOUBLE
                       ELSE SCORES.TSPIN_TRIPLE)
            ELSE (IF linesCleared = 1 THEN SCORES.SINGLE
                  ELSE IF linesCleared = 2 THEN SCORES.DOUBLE
                  ELSE IF linesCleared = 3 THEN SCORES.TRIPLE
                  ELSE SCORES.TETRIS)
        isSpecial == IF tSpinInfo.isTSpin THEN TRUE ELSE linesCleared = 4
        b2b == isSpecial /\ gs.lastWasSpecial
        baseScore == IF b2b THEN B2B(base0) ELSE base0
        combo == gs.combo + 1
        comboBonus == IF combo > 0 THEN SCORES.COMBO_BONUS * combo ELSE 0
        levelMultiplier == gs.level
        score == gs.score + (baseScore + comboBonus) * levelMultiplier
    IN  [gs EXCEPT !.b2b = b2b,
                   !.lastWasSpecial = isSpecial,
                   !.combo = combo,
                   !.score = score,
                   !.highScore = IF score > gs.highScore THEN score ELSE gs.highScore]

\* the board after the loop of lockPiece has written the piece's cells
\* (those above the board are skipped)
placePiece(board, piece) ==
    LET cells == {<<piece.x + c[1], piece.y + c[2]>> :
                     c \in PieceCells[piece.type][piece.rotation]}
    IN  [i \in DOMAIN board |->
            IF <<i % COLS, i \div COLS>> \in cells
            THEN getColorIndex(piece.type)
            ELSE board[i]]

\* topOut of lockPiece: a cell of the piece lies above the board
isTopOut(piece) ==
    \E c \in PieceCells[piece.type][piece.rotation] : piece.y + c[2] < 0

\* lockPiece after clearLines has returned: the clear is scored and counted
\* with the level recomputed, or, with no row cleared, the combo ends
countLines(gs, linesCleared, tSpinInfo) ==
    IF linesCleared > 0
    THEN LET g == calculateScore(gs, linesCleared, tSpinInfo)
         IN  [g EXCEPT
                !.lines = g.lines + linesCleared,
                !.level = ((g.lines + linesCleared) \div 10) + 1]
    ELSE [gs EXCEPT !.combo = -1]

\* fault injected for C9: the lock goes on to clear, score and spawn whether
\* or not the piece tops out
lockPieceNoTopOut(gs, js) ==
    LET piece == gs.currentPiece
        g1 == [gs EXCEPT !.board = placePiece(gs.board, piece)]
        isTSpin == checkTSpin(g1.board, piece)
        cleared == clearLines(g1.board)
        linesCleared == cleared.count
        g2 == IF linesCleared > 0
              THEN LET g == calculateScore(g1, linesCleared, isTSpin)
                   IN  [g EXCEPT
                          !.lines = g.lines + linesCleared,
                          !.level = ((g.lines + linesCleared) \div 10) + 1]
              ELSE [g1 EXCEPT !.combo = -1]
    IN  [gs |-> spawnPiece(g2, js), sched |-> cleared.sched, locks |-> 1]

\* lockPiece returns the game state, the timeouts it scheduled (sched) and
\* the number of pieces it locked (locks)
lockPiece(gs, js) ==
    LET piece == gs.currentPiece
        g1 == [gs EXCEPT !.board = placePiece(gs.board, piece)]
    IN  IF isTopOut(piece)
        THEN [gs |-> [g1 EXCEPT !.gameOver = TRUE], sched |-> <<>>, locks |-> 1]
        ELSE LET isTSpin == checkTSpin(g1.board, piece)
                 cleared == clearLines(g1.board)
                 linesCleared == cleared.count
                 g2 == countLines(g1, linesCleared, isTSpin)
             IN  [gs |-> spawnPiece(g2, js), sched |-> cleared.sched, locks |-> 1]

\* fault injected for C7: the piece is locked where it is, without the drop
hardDropNoDrop(gs, js) ==
    IF gs.currentPiece = NoPiece \/ gs.gameOver \/ gs.paused
    THEN [gs |-> gs, sched |-> <<>>, locks |-> 0]
    ELSE lockPiece([gs EXCEPT !.canHold = FALSE], js)

\* the loop of hardDrop:
\* while (isValidPosition(piece.x, piece.y + 1, piece.rotation)) { piece.y++; dropDistance++; }
RECURSIVE hardDropLoop(_, _)
hardDropLoop(gs, dropDistance) ==
    IF isValidPosition(gs.board, gs.currentPiece.x, gs.currentPiece.y + 1,
                       gs.currentPiece.rotation, gs.currentPiece.type)
    THEN hardDropLoop([gs EXCEPT !.currentPiece.y = gs.currentPiece.y + 1],
                      dropDistance + 1)
    ELSE [gs |-> gs, dropDistance |-> dropDistance]

hardDrop(gs, js) ==
    IF gs.currentPiece = NoPiece \/ gs.gameOver \/ gs.paused
    THEN [gs |-> gs, sched |-> <<>>, locks |-> 0]
    ELSE LET dropped == hardDropLoop(gs, 0)
         IN  lockPiece([dropped.gs EXCEPT
                          !.score = dropped.gs.score
                                    + dropped.dropDistance * SCORES.HARD_DROP,
                          !.canHold = FALSE],
                       js)

\* fault injected for C6: the hold leaves holding permitted
holdCurrentPieceKeepsHold(gs, js) ==
    IF gs.currentPiece = NoPiece \/ ~gs.canHold \/ gs.gameOver \/ gs.paused THEN gs
    ELSE LET currentType == gs.currentPiece.type
             g1 == IF gs.holdPiece # "none"
                   THEN [gs EXCEPT
                           !.currentPiece = [type |-> gs.holdPiece,
                                             x |-> (COLS \div 2) - 2,
                                             y |-> -SPAWN_ROW,
                                             rotation |-> 0]]
                   ELSE spawnPiece(gs, js)
         IN  [g1 EXCEPT !.holdPiece = currentType,
                        !.lockTimer = 0,
                        !.lockResets = 0,
                        !.isLocked = FALSE]

holdCurrentPiece(gs, js) ==
    IF gs.currentPiece = NoPiece \/ ~gs.canHold \/ gs.gameOver \/ gs.paused THEN gs
    ELSE LET currentType == gs.currentPiece.type
             g1 == IF gs.holdPiece # "none"
                   THEN [gs EXCEPT
                           !.currentPiece = [type |-> gs.holdPiece,
                                             x |-> (COLS \div 2) - 2,
                                             y |-> -SPAWN_ROW,
                                             rotation |-> 0]]
                   ELSE spawnPiece(gs, js)
         IN  [g1 EXCEPT !.holdPiece = currentType,
                        !.canHold = FALSE,
                        !.lockTimer = 0,
                        !.lockResets = 0,
                        !.isLocked = FALSE]

togglePause(gs) ==
    IF gs.gameOver THEN gs ELSE [gs EXCEPT !.paused = ~gs.paused]

(***************************************************************************)
(* The frame: update(dt) = updateInput, updateGravity, updateLockTimer.    *)
(***************************************************************************)
updateInput(gs, inp, dt) ==
    LET leftTime == inp.leftTime + dt
        leftFires == inp.leftPressed /\ leftTime >= DAS_DELAY
                     /\ leftTime - DAS_DELAY >= ARR_DELAY
        g1 == IF leftFires THEN movePiece(gs, -1) ELSE gs
        i1 == IF inp.leftPressed
              THEN [inp EXCEPT !.leftTime = IF leftFires THEN DAS_DELAY ELSE leftTime]
              ELSE inp
        rightTime == i1.rightTime + dt
        rightFires == i1.rightPressed /\ rightTime >= DAS_DELAY
                      /\ rightTime - DAS_DELAY >= ARR_DELAY
        g2 == IF rightFires THEN movePiece(g1, 1) ELSE g1
        i2 == IF i1.rightPressed
              THEN [i1 EXCEPT !.rightTime = IF rightFires THEN DAS_DELAY ELSE rightTime]
              ELSE i1
        downTime == i2.downTime + dt
        downFires == i2.downPressed /\ downTime >= ARR_DELAY
        dropped == softDropPiece(g2)
        g3 == IF downFires
              THEN (IF dropped.moved
                    THEN [dropped.gs EXCEPT !.score = dropped.gs.score + SCORES.SOFT_DROP]
                    ELSE dropped.gs)
              ELSE g2
        i3 == IF i2.downPressed
              THEN [i2 EXCEPT !.downTime = IF downFires THEN 0 ELSE downTime]
              ELSE i2
    IN  [gs |-> g3, input |-> i3]

\* dropTimer >= dropSpeed, the soft-drop speed being LEVEL_SPEEDS[..] / 20
\* (a fraction for most levels): compared without dividing
dropDue(gs, inp, dropTimer) ==
    LET idx == IF gs.level - 1 < Len(LEVEL_SPEEDS) - 1
               THEN gs.level - 1 ELSE Len(LEVEL_SPEEDS) - 1
        speed == LEVEL_SPEEDS[idx + 1]
    IN  IF inp.downPressed
        THEN dropTimer * SOFT_DROP_MULTIPLIER >= speed
        ELSE dropTimer >= speed

updateGravity(gs, inp, dt) ==
    IF gs.currentPiece = NoPiece THEN gs
    ELSE LET dropTimer == gs.dropTimer + dt
         IN  IF dropDue(gs, inp, dropTimer)
             THEN LET dropped == softDropPiece(gs)
                      g1 == IF ~dropped.moved /\ ~dropped.gs.isLocked
                            THEN [dropped.gs EXCEPT !.isLocked = TRUE, !.lockTimer = 0]
                            ELSE dropped.gs
                  IN  [g1 EXCEPT !.dropTimer = 0]
             ELSE [gs EXCEPT !.dropTimer = dropTimer]

updateLockTimer(gs, dt, js) ==
    IF ~gs.isLocked THEN [gs |-> gs, sched |-> <<>>, locks |-> 0]
    ELSE LET g1 == [gs EXCEPT !.lockTimer = gs.lockTimer + dt]
         IN  IF g1.lockTimer >= LOCK_DELAY
             THEN lockPiece(g1, js)
             ELSE [gs |-> g1, sched |-> <<>>, locks |-> 0]

update(gs, inp, dt, js) ==
    IF gs.gameOver \/ gs.paused
    THEN [gs |-> gs, input |-> inp, sched |-> <<>>, locks |-> 0]
    ELSE LET a == updateInput(gs, inp, dt)
             b == updateGravity(a.gs, a.input, dt)
             c == updateLockTimer(b, dt, js)
         IN  [gs |-> c.gs, input |-> a.input, sched |-> c.sched, locks |-> c.locks]

(***************************************************************************)
(* Input handlers.                                                         *)
(***************************************************************************)
handleKeyDown(gs, inp, key, js) ==
    LET same == [gs |-> gs, input |-> inp, sched |-> <<>>, locks |-> 0, resets |-> 0]
    IN  IF gs.gameOver /\ key # "r" THEN same
        ELSE IF gs.paused /\ key # "p" THEN same
        ELSE CASE key = "ArrowLeft" ->
                    IF ~inp.leftPressed
                    THEN [same EXCEPT
                            !.gs = movePiece(gs, -1),
                            !.input = [inp EXCEPT !.leftPressed = TRUE,
                                                  !.leftTime = DAS_DELAY]]
                    ELSE same
               [] key = "ArrowRight" ->
                    IF ~inp.rightPressed
                    THEN [same EXCEPT
                            !.gs = movePiece(gs, 1),
                            !.input = [inp EXCEPT !.rightPressed = TRUE,
                                                  !.rightTime = DAS_DELAY]]
                    ELSE same
               [] key = "ArrowDown" ->
                    IF ~inp.downPressed
                    THEN [same EXCEPT
                            !.input = [inp EXCEPT !.downPressed = TRUE,
                                                  !.downTime = ARR_DELAY]]
                    ELSE same
               [] key = "z" -> [same EXCEPT !.gs = rotatePiece(gs, -1)]
               [] key = "x" -> [same EXCEPT !.gs = rotatePiece(gs, 1)]
               [] key = "a" -> [same EXCEPT !.gs = rotatePiece(gs, 2)]
               [] key = " " ->
                    LET d == hardDrop(gs, js)
                    IN  [same EXCEPT !.gs = d.gs, !.sched = d.sched, !.locks = d.locks]
               [] key = "c" -> [same EXCEPT !.gs = holdCurrentPiece(gs, js)]
               [] key = "p" -> [same EXCEPT !.gs = togglePause(gs)]
               [] key = "r" -> [same EXCEPT !.gs = reset(gs, js), !.resets = 1]
               [] OTHER -> same

handleKeyUp(inp, key) ==
    CASE key = "ArrowLeft" -> [inp EXCEPT !.leftPressed = FALSE, !.leftTime = 0]
      [] key = "ArrowRight" -> [inp EXCEPT !.rightPressed = FALSE, !.rightTime = 0]
      [] key = "ArrowDown" -> [inp EXCEPT !.downPressed = FALSE, !.downTime = 0]
      [] OTHER -> inp

\* the touch buttons leftBtn, rightBtn, downBtn
simulateKey(inp, key, pressed) ==
    CASE key = "ArrowLeft" ->
            [inp EXCEPT !.leftPressed = pressed,
                        !.leftTime = IF ~pressed THEN 0 ELSE inp.leftTime]
      [] key = "ArrowRight" ->
            [inp EXCEPT !.rightPressed = pressed,
                        !.rightTime = IF ~pressed THEN 0 ELSE inp.rightTime]
      [] key = "ArrowDown" ->
            [inp EXCEPT !.downPressed = pressed,
                        !.downTime = IF ~pressed THEN 0 ELSE inp.downTime]
      [] OTHER -> inp

(***************************************************************************)
(* The state machine.  An event is a keyboard event, a touch button, an    *)
(* animation frame or a due timeout; each runs its handler to the end.     *)
(***************************************************************************)
\* the streams the random source produces in the game: draw orders
\* I J Z S T O L and O J I S T L Z
StreamI == <<1, 2, 3, 4, 5, 0>>
StreamO == <<1, 2, 3, 0, 5, 1>>
Streams == {StreamI, StreamO}

NoCount == [locks |-> 0, resets |-> 0]

\* no draw made yet
NoDraws == [made |-> 0, kinds |-> {}]

\* the state init() leaves: no saved high score, reset(), a first frame of dt 0
InitWith(streams) ==
    /\ \E js \in streams : gameState = reset(InitialGameState, js)
    /\ input = InitialInput
    /\ timeouts = <<>>
    /\ count = NoCount
    /\ draws = NoDraws

\* the handler's result r becomes the state; a timeout it scheduled may
\* outlive `frames` frames
Commit(r, pending, frames, maxLocks) ==
    /\ count.locks + r.locks <= maxLocks
    /\ r.resets = 1 => count.resets < MaxResets
    /\ Len(pending) + Len(r.sched) <= MaxTimeouts
    /\ gameState' = r.gs
    /\ input' = r.input
    /\ timeouts' = pending \o
                   [i \in 1..Len(r.sched) |-> [lines |-> r.sched[i], frames |-> frames]]
    /\ count' = IF r.resets = 1
                THEN [locks |-> 0, resets |-> count.resets + 1]
                ELSE [count EXCEPT !.locks = count.locks + r.locks]
    /\ UNCHANGED draws

\* a handler result that changes the game state alone
Only(gs) == [gs |-> gs, input |-> input, sched |-> <<>>, locks |-> 0, resets |-> 0]

\* document.addEventListener('keydown', handleKeyDown)
KeyDown(key, maxLocks) ==
    \E js \in Streams :
        Commit(handleKeyDown(gameState, input, key, js), timeouts, 1, maxLocks)

\* document.addEventListener('keyup', handleKeyUp)
KeyUp(key) ==
    /\ input' = handleKeyUp(input, key)
    /\ UNCHANGED <<gameState, timeouts, count, draws>>

\* bindButton: leftBtn, rightBtn, downBtn call simulateKey
Button(key, pressed) ==
    /\ input' = simulateKey(input, key, pressed)
    /\ UNCHANGED <<gameState, timeouts, count, draws>>

\* bindTap('rotateBtn', () => rotatePiece(1))
TapRotate ==
    /\ gameState' = rotatePiece(gameState, 1)
    /\ UNCHANGED <<input, timeouts, count, draws>>

\* bindTap('holdBtn', holdCurrentPiece)
TapHold ==
    /\ \E js \in Streams : gameState' = holdCurrentPiece(gameState, js)
    /\ UNCHANGED <<input, timeouts, count, draws>>

\* bindTap('hardDropBtn', hardDrop)
TapHardDrop(maxLocks) ==
    \E js \in Streams :
        LET d == hardDrop(gameState, js)
        IN  Commit([Only(d.gs) EXCEPT !.sched = d.sched, !.locks = d.locks],
                   timeouts, 1, maxLocks)

\* bindTap('pauseBtn', togglePause)
TapPause ==
    /\ gameState' = togglePause(gameState)
    /\ UNCHANGED <<input, timeouts, count, draws>>

\* bindTap('resetBtn', reset)
TapReset ==
    \E js \in Streams :
        Commit([Only(reset(gameState, js)) EXCEPT !.resets = 1], timeouts, 1, MaxLocks)

\* gameLoop: one animation frame, dt after the one before, dt >= CLEAR_DELAY.
\* A timeout set in a frame is due before the next one; one set by an input
\* event between two frames may still be pending at the next frame.
Frame(dt, maxLocks) ==
    /\ dt >= CLEAR_DELAY
    /\ \A i \in DOMAIN timeouts : timeouts[i].frames >= 1
    /\ \E js \in Streams :
        LET u == update(gameState, input, dt, js)
        IN  Commit([gs |-> u.gs, input |-> u.input, sched |-> u.sched,
                    locks |-> u.locks, resets |-> 0],
                   [i \in DOMAIN timeouts |-> [timeouts[i] EXCEPT !.frames = 0]],
                   0, maxLocks)

\* the oldest pending timeout fires: the callback of clearLines runs
Timeout ==
    /\ Len(timeouts) > 0
    /\ gameState' = [gameState EXCEPT
                       !.board = clearLinesCallback(gameState.board, Head(timeouts).lines)]
    /\ timeouts' = Tail(timeouts)
    /\ UNCHANGED <<input, count, draws>>

(***************************************************************************)
(* Spec: a session driven through every command of the keyboard and of the *)
(* touch buttons (rotate, hard drop, hold, pause, reset), with frames of   *)
(* one gravity interval.                                                   *)
(***************************************************************************)
CommandKeys == {"x", " ", "c", "p", "r"}

\* one gravity interval of level 1
FrameTime == 1000

Init == InitWith({StreamI})

Next ==
    \/ \E key \in CommandKeys \ {"r"} : KeyDown(key, MaxLocks)
    \/ TapRotate
    \/ TapHold
    \/ TapHardDrop(MaxLocks)
    \/ TapPause
    \/ Frame(FrameTime, MaxLocks)
    \/ Timeout

Spec == Init /\ [][Next]_vars

(***************************************************************************)
(* SpecReset: the same commands and reset, one lock per session.           *)
(***************************************************************************)
NextReset ==
    \/ \E key \in CommandKeys : KeyDown(key, 1)
    \/ TapRotate
    \/ TapHold
    \/ TapHardDrop(1)
    \/ TapPause
    \/ TapReset
    \/ Frame(FrameTime, 1)
    \/ Timeout

SpecReset == Init /\ [][NextReset]_vars

(***************************************************************************)
(* SpecLock: pieces moved, rotated and dropped under the lock delay, with  *)
(* frames of a quarter of a gravity interval, until one has locked.        *)
(***************************************************************************)
MoveKeys == {"ArrowLeft", "ArrowRight", "x", " "}

\* a quarter of the gravity interval of level 1, half the lock delay
QuarterTime == 250

NextLock ==
    \/ \E key \in MoveKeys : KeyDown(key, 1)
    \/ \E key \in {"ArrowLeft", "ArrowRight"} : KeyUp(key)
    \/ Frame(QuarterTime, 1)
    \/ Timeout

SpecLock == Init /\ [][NextLock]_vars

(***************************************************************************)
(* SpecClear: pieces moved, rotated and hard-dropped, no frame in between: *)
(* three locks build the rows that the clear then removes.                 *)
(***************************************************************************)
PlaceKeys == {"ArrowRight", "x", " "}

NextClear ==
    \/ \E key \in PlaceKeys : KeyDown(key, MaxClearLocks)
    \/ KeyUp("ArrowRight")
    \/ Timeout

SpecClear == InitWith({StreamO}) /\ [][NextClear]_vars

(***************************************************************************)
(* SpecTSpin: a session whose second piece is T; the pieces are moved,     *)
(* rotated and hard-dropped, no frame in between.                          *)
(***************************************************************************)
\* the shuffle that draws I, T, Z, S, J, O, L
StreamT == <<1, 2, 3, 4, 2, 0>>

MaxTSpinLocks == 2

NextTSpin ==
    \/ \E key \in MoveKeys : KeyDown(key, MaxTSpinLocks)
    \/ \E key \in {"ArrowLeft", "ArrowRight"} : KeyUp(key)
    \/ Timeout

SpecTSpin == InitWith({StreamT}) /\ [][NextTSpin]_vars

(***************************************************************************)
(* SpecStall: the first piece, a T, moved and rotated between frames of a  *)
(* quarter of a gravity interval, until it has locked.                     *)
(***************************************************************************)
\* the shuffle that draws T, J, Z, S, L, O, I
StreamSpin == <<1, 2, 3, 4, 5, 2>>

StallKeys == {"ArrowLeft", "ArrowRight", "x"}

NextStall ==
    \/ \E key \in StallKeys : KeyDown(key, 1)
    \/ \E key \in {"ArrowLeft", "ArrowRight"} : KeyUp(key)
    \/ Frame(QuarterTime, 1)

SpecStall == InitWith({StreamSpin}) /\ [][NextStall]_vars

(***************************************************************************)
(* SpecTuck: two pieces hard-dropped and a third moved, rotated and        *)
(* soft-dropped while the collapses the locks scheduled are pending; the   *)
(* frames run are those that find a collapse pending.                      *)
(***************************************************************************)
\* the shuffle that draws I, T, J, S, Z, O, L
StreamTuck == <<1, 2, 3, 2, 2, 0>>

MaxTuckLocks == 2

TuckKeys == {"ArrowLeft", "ArrowRight", "ArrowDown", "x", "z", " "}

NextTuck ==
    \/ \E key \in TuckKeys : KeyDown(key, MaxTuckLocks)
    \/ \E key \in {"ArrowLeft", "ArrowRight", "ArrowDown"} : KeyUp(key)
    \/ Len(timeouts) > 0 /\ Frame(FrameTime, MaxTuckLocks)
    \/ Timeout

SpecTuck == InitWith({StreamTuck}) /\ [][NextTuck]_vars

(***************************************************************************)
(* SpecBag: getNextPiece on its own, from the empty bag of the gameState    *)
(* literal, under every outcome of the shuffle.  draws.made counts the     *)
(* draws; draws.kinds is the set of kinds drawn in the block of seven      *)
(* draws the last draw belongs to.                                         *)
(***************************************************************************)
\* the outcomes of the random source that a draw from the bag can read:
\* getNextPiece shuffles, and so reads the source, only when the bag is empty
StreamsRead(gs) == IF Len(gs.bag) = 0 THEN AllStreams ELSE {StreamI}

Draw ==
    /\ draws.made < MaxDraws
    /\ \E js \in StreamsRead(gameState) :
        LET drawn == getNextPiece(gameState, js)
        IN  /\ gameState' = drawn.gs
            /\ draws' = [made |-> draws.made + 1,
                         kinds |-> IF draws.made % Len(PIECE_TYPES) = 0
                                   THEN {drawn.piece}
                                   ELSE draws.kinds \cup {drawn.piece}]
    /\ UNCHANGED <<input, timeouts, count>>

InitBag ==
    /\ gameState = InitialGameState
    /\ input = InitialInput
    /\ timeouts = <<>>
    /\ count = NoCount
    /\ draws = NoDraws

NextBag == Draw

SpecBag == InitBag /\ [][NextBag]_vars

(***************************************************************************)
(* SpecScore: the scoring of lockPiece on its own.  Each step is the part  *)
(* of a lock that follows clearLines, for every number of cleared rows and *)
(* every result of checkTSpin that a piece can produce (a T piece spans at *)
(* most three rows).                                                       *)
(***************************************************************************)
\* the values checkTSpin returns
TSpinInfos ==
    {[isTSpin |-> FALSE, isMini |-> FALSE],
     [isTSpin |-> TRUE, isMini |-> TRUE],
     [isTSpin |-> TRUE, isMini |-> FALSE]}

\* the clears a lock can score: rows cleared, result of checkTSpin
ScoredClears ==
    {c \in (1..4) \X TSpinInfos : c[2].isTSpin => c[1] <= 3}

LockScored(linesCleared, tSpinInfo) ==
    /\ count.locks < MaxScoredLocks
    /\ gameState' = countLines(gameState, linesCleared, tSpinInfo)
    /\ count' = [count EXCEPT !.locks = count.locks + 1]
    /\ UNCHANGED <<input, timeouts, draws>>

NextScore ==
    \/ \E c \in ScoredClears : LockScored(c[1], c[2])
    \/ LockScored(0, [isTSpin |-> FALSE, isMini |-> FALSE])

SpecScore == Init /\ [][NextScore]_vars

(***************************************************************************)
(* Claims.                                                                 *)
(***************************************************************************)
RowIsFull(board, y) == \A x \in 0..(COLS - 1) : board[y * COLS + x] # 0

\* C1: a line clear is applied within the engine step of the lock that
\* completed the rows, so no state between two engine operations (events,
\* frames, callbacks) holds a full row.
C1_NoFullRowBetweenOperations ==
    \A y \in 0..(ROWS - 1) : ~RowIsFull(gameState.board, y)

\* the rows y, y + 1, ... of a board that are full (full = TRUE) or that are
\* not (full = FALSE), top to bottom
RECURSIVE RowsFrom(_, _, _)
RowsFrom(board, y, full) ==
    IF y >= ROWS THEN <<>>
    ELSE (IF RowIsFull(board, y) = full THEN <<y>> ELSE <<>>)
         \o RowsFrom(board, y + 1, full)

\* a board with its full rows removed: the other rows in their order, moved
\* down, under as many empty rows as were removed
Cleared(board) ==
    LET kept == RowsFrom(board, 0, FALSE)
        k == ROWS - Len(kept)
    IN  [i \in DOMAIN board |->
            IF i \div COLS < k THEN 0
            ELSE board[kept[(i \div COLS) - k + 1] * COLS + (i % COLS)]]

\* a step in which a clearLines timeout fires on the board it was set for:
\* the rows it is to remove are the full rows of the board
ClearApplied ==
    /\ Len(timeouts) > 0
    /\ timeouts' = Tail(timeouts)
    /\ Head(timeouts).lines = RowsFrom(gameState.board, 0, TRUE)

\* C2: once the clear of k full rows (k in 1..4, adjacent or not) has been
\* applied, the board is the rows that were not full, in their order, moved
\* down, with k empty rows on top: no such row is lost, no full row is left.
C2_ClearKeepsOtherRows ==
    [][ClearApplied => gameState'.board = Cleared(gameState.board)]_vars

(***************************************************************************)
(* C3: the bag.                                                            *)
(***************************************************************************)
\* C3: starting from an empty bag, every block of 7 consecutive getNextPiece
\* draws (draws 1-7, 8-14) holds each of the kinds I, O, T, S, Z, J, L exactly
\* once, for every outcome of the shuffle: 7 draws, 7 different kinds.
C3_BlockOfSevenHoldsEveryKind ==
    (draws.made > 0 /\ draws.made % 7 = 0)
        => draws.kinds = {"I", "O", "T", "S", "Z", "J", "L"}

\* the second block of seven has been drawn
C3_SecondBlockDrawn ==
    /\ draws.made = 14
    /\ Len(gameState.bag) = 0
    /\ Cardinality(draws.kinds) = 7

(***************************************************************************)
(* C4, C5: paused, game over, reset.                                       *)
(***************************************************************************)
\* the fields C4 names
Gated ==
    <<gameState.board, gameState.currentPiece, gameState.holdPiece,
      gameState.score, gameState.lines, gameState.level, gameState.combo,
      gameState.dropTimer, gameState.lockTimer, gameState.lockResets>>

\* C4: while the session is paused or game over, no step other than a reset
\* changes the board, the active piece, the hold slot, score, lines, level,
\* combo, dropTimer, lockTimer or lockResets; the step that unpauses is one of
\* them, so the timers go on from the values they had when pausing.
C4_NothingChangesWhileSuspended ==
    [][((gameState.paused \/ gameState.gameOver) /\ count'.resets = count.resets)
           => Gated' = Gated]_vars

\* the state reset is to leave, as C5 lists it
Fresh(gs) ==
    /\ ~gs.paused
    /\ ~gs.gameOver
    /\ gs.score = 0
    /\ gs.lines = 0
    /\ gs.level = 1
    /\ gs.combo = -1
    /\ gs.holdPiece = "none"
    /\ gs.currentPiece.type \in PieceKinds
    /\ gs.currentPiece.y = -SPAWN_ROW
    /\ gs.currentPiece.rotation = 0
    /\ gs.lockTimer = 0
    /\ gs.lockResets = 0

\* C5: in every state of the session (running, paused, game over) the reset
\* intent is accepted on both paths that deliver it, the key r and the reset
\* button, and leaves the session not paused, not over, score 0, lines 0,
\* level 1, combo -1, hold slot empty, with a freshly spawned piece.
C5_ResetAcceptedInEveryState ==
    \A js \in Streams :
        /\ Fresh(handleKeyDown(gameState, input, "r", js).gs)
        /\ Fresh(reset(gameState, js))

(***************************************************************************)
(* C6: hold.                                                               *)
(***************************************************************************)
\* a hold is refused when holding is not permitted, and a hold that takes
\* place leaves it not permitted
HoldTakesPermission ==
    \A js \in Streams :
        LET held == holdCurrentPiece(gameState, js)
        IN  /\ ~gameState.canHold => held = gameState
            /\ held # gameState
                   => /\ ~held.canHold
                      /\ held.holdPiece = gameState.currentPiece.type

\* the step locks a piece
LockStep == count'.resets = count.resets /\ count'.locks = count.locks + 1

\* the step resets the session
ResetStep == count'.resets = count.resets + 1

\* C6 as stated: at most one successful hold between two consecutive locks:
\* after a hold, canHold stays false until the next piece is spawned by a lock.
C6_HoldOncePerLock ==
    /\ []HoldTakesPermission
    /\ [][(~gameState.canHold /\ gameState'.canHold) => LockStep]_vars

\* C6, amended: after a hold, canHold stays false until the next piece is
\* spawned by a lock or the session is reset; so at most one successful hold
\* happens between two consecutive events of these two kinds.
C6_HoldOncePerLockOrReset ==
    /\ []HoldTakesPermission
    /\ [][(~gameState.canHold /\ gameState'.canHold) => (LockStep \/ ResetStep)]_vars

\* a piece has locked, and the piece after it has been exchanged with the
\* held one: holding is not permitted
C6_HeldAfterLock ==
    /\ count.locks >= 1
    /\ gameState.holdPiece # "none"
    /\ gameState.currentPiece # NoPiece
    /\ ~gameState.canHold
    /\ ~gameState.gameOver

(***************************************************************************)
(* C7, C8: hard drop and the lock delay.                                   *)
(***************************************************************************)
\* the board cells of a piece at <<x, y>> that lie on the board
CellsOnBoard(pieceType, rotation, x, y) ==
    {i \in 0..(ROWS * COLS - 1) :
        \E c \in MatrixCells(getRotatedMatrix(pieceType, rotation)) :
            /\ i % COLS = x + c[1]
            /\ i \div COLS = y + c[2]}

\* C7: an accepted hardDrop locks the active piece within the call, whatever
\* lockTimer and lockResets are, at the row getGhostPosition reports just
\* before: every row from the piece's down to that one is free for it, the
\* row below is not, and the piece's cells are written there and nowhere else.
C7_HardDropLocksAtGhost ==
    (gameState.currentPiece # NoPiece /\ ~gameState.gameOver /\ ~gameState.paused)
        => \A js \in Streams :
              LET piece == gameState.currentPiece
                  ghost == getGhostPosition(gameState)
                  dropped == hardDrop(gameState, js)
                  cells == CellsOnBoard(piece.type, piece.rotation, piece.x, ghost.y)
              IN  /\ dropped.locks = 1
                  /\ ghost.x = piece.x /\ ghost.rotation = piece.rotation
                  /\ \A y \in piece.y..ghost.y :
                        isValidPosition(gameState.board, piece.x, y,
                                        piece.rotation, piece.type)
                  /\ ~isValidPosition(gameState.board, piece.x, ghost.y + 1,
                                      piece.rotation, piece.type)
                  /\ \A i \in DOMAIN gameState.board :
                        IF i \in cells
                        THEN gameState.board[i] = 0 /\ dropped.gs.board[i] # 0
                        ELSE dropped.gs.board[i] = gameState.board[i]

\* a hard drop has locked the first piece on the floor (only a hard drop
\* scores where no row is cleared and nothing is soft-dropped)
C7_HardDropped ==
    /\ count.locks = 1
    /\ gameState.lines = 0
    /\ gameState.score > 0
    /\ \E x \in 0..(COLS - 1) : gameState.board[(ROWS - 1) * COLS + x] # 0

\* with the budget of resets used up, no move and no rotation resets the
\* lock timer
NoResetBeyondBudget ==
    (gameState.isLocked /\ gameState.lockResets = 15)
        => /\ \A dx \in {-1, 1} :
                LET moved == movePiece(gameState, dx)
                IN  /\ moved.lockTimer = gameState.lockTimer
                    /\ moved.lockResets = 15
                    /\ moved.isLocked
           /\ \A direction \in {-1, 1, 2} :
                LET rotated == rotatePiece(gameState, direction)
                IN  /\ rotated.lockTimer = gameState.lockTimer
                    /\ rotated.lockResets = 15
                    /\ rotated.isLocked

\* with the budget used up, a frame adds its time to the lock timer, and
\* locks the piece when that takes the timer to 500 ms
LocksAtDelay ==
    (gameState.isLocked /\ gameState.lockResets = 15
     /\ ~gameState.gameOver /\ ~gameState.paused)
        => \A js \in Streams :
              LET u == update(gameState, input, QuarterTime, js)
              IN  IF gameState.lockTimer + QuarterTime >= 500
                  THEN u.locks = 1
                  ELSE /\ u.locks = 0
                       /\ u.gs.lockTimer = gameState.lockTimer + QuarterTime
                       /\ u.gs.lockResets = 15
                       /\ u.gs.isLocked

\* C8: for one active piece the lock timer is reset at most 15 times
\* (lockResets stays in 0..15, and a step that resets the timer counts one);
\* from then on a move or rotation does not reset it, it keeps accumulating,
\* and the piece locks when it reaches 500 ms.
C8_LockResetBudget ==
    /\ [](gameState.lockResets \in 0..15)
    /\ []NoResetBeyondBudget
    /\ []LocksAtDelay
    /\ [][(gameState.isLocked /\ gameState.lockTimer' < gameState.lockTimer
           /\ ~LockStep)
             => gameState.lockResets' = gameState.lockResets + 1]_vars
    /\ [][(gameState.isLocked /\ gameState.lockResets = 15)
             => \/ LockStep
                \/ /\ gameState.isLocked'
                   /\ gameState.lockResets' = 15
                   /\ gameState.lockTimer' >= gameState.lockTimer
                   /\ gameState.lockTimer' < 500]_vars

\* the budget is used up and the lock timer has run on since
C8_BudgetUsedUp ==
    /\ gameState.lockResets = 15
    /\ gameState.isLocked
    /\ gameState.lockTimer > 0
    /\ count.locks = 0

(***************************************************************************)
(* C9: top-out.                                                            *)
(***************************************************************************)
\* a cell of the piece, at row y, lies above the board
AboveBoard(piece, y) ==
    \E c \in MatrixCells(getRotatedMatrix(piece.type, piece.rotation)) :
        y + c[2] < 0

\* what C9 says of the result r of a lock, of the state gs, that tops out
\* with the piece at row y and the score at `score`
EndsWithoutClear(r, gs, y, score) ==
    /\ r.locks = 1
    /\ r.gs.gameOver
    /\ r.sched = <<>>
    /\ r.gs.score = score
    /\ r.gs.lines = gs.lines
    /\ r.gs.level = gs.level
    /\ r.gs.combo = gs.combo
    /\ r.gs.b2b = gs.b2b
    /\ r.gs.lastWasSpecial = gs.lastWasSpecial
    /\ r.gs.nextPieces = gs.nextPieces
    /\ r.gs.bag = gs.bag
    /\ r.gs.currentPiece = [gs.currentPiece EXCEPT !.y = y]

\* C9: when a piece locks with a cell in a row above the board, by lockPiece
\* where it is or by hardDrop where it lands, the session becomes game over
\* and the lock clears no line, awards no line-clear score, leaves lines,
\* level, combo and the Back-to-Back flags as they are, and spawns no piece.
C9_TopOutEndsSession ==
    (gameState.currentPiece # NoPiece /\ ~gameState.gameOver)
        => \A js \in Streams :
              LET piece == gameState.currentPiece
                  ghost == getGhostPosition(gameState)
              IN  /\ AboveBoard(piece, piece.y)
                        => EndsWithoutClear(lockPiece(gameState, js), gameState,
                                            piece.y, gameState.score)
                  /\ (AboveBoard(piece, ghost.y) /\ ~gameState.paused)
                        => EndsWithoutClear(hardDrop(gameState, js), gameState,
                                            ghost.y,
                                            gameState.score + 2 * (ghost.y - piece.y))

\* a lock has topped out: the session is over with the piece still in place,
\* part of it above the board
C9_ToppedOut ==
    /\ gameState.gameOver
    /\ count.locks >= 1
    /\ AboveBoard(gameState.currentPiece, gameState.currentPiece.y)
    /\ \E i \in DOMAIN gameState.board : gameState.board[i] # 0

(***************************************************************************)
(* C10: spawn.                                                             *)
(***************************************************************************)
\* C10: when a piece is spawned and its cells at the spawn coordinates
\* overlap filled board cells, the session is game over and score and lines
\* keep their values (spawnPiece on the state as it is).
C10_SpawnOverlapEndsSession ==
    (Len(gameState.nextPieces) > 0 /\ ~gameState.gameOver)
        => \A js \in Streams :
              LET spawned == spawnPiece(gameState, js)
                  piece == spawned.currentPiece
              IN  (\E i \in CellsOnBoard(piece.type, piece.rotation, piece.x, piece.y) :
                      gameState.board[i] # 0)
                     => /\ spawned.gameOver
                        /\ spawned.score = gameState.score
                        /\ spawned.lines = gameState.lines

\* a spawned piece has a cell on the board
C10_SpawnedOnBoard ==
    /\ gameState.currentPiece # NoPiece
    /\ gameState.currentPiece.y = -SPAWN_ROW
    /\ gameState.currentPiece.rotation = 0
    /\ CellsOnBoard(gameState.currentPiece.type, 0, gameState.currentPiece.x,
                    gameState.currentPiece.y) # {}

(***************************************************************************)
(* C11, C12, C13: scoring.                                                 *)
(***************************************************************************)
\* the base value of a clear of n rows, as C11 lists it
TableBase(n, tSpinInfo) ==
    IF tSpinInfo.isTSpin
    THEN IF tSpinInfo.isMini
         THEN (IF n = 1 THEN 100 ELSE 200)
         ELSE (IF n = 1 THEN 800 ELSE IF n = 2 THEN 1200 ELSE 1600)
    ELSE (IF n = 1 THEN 100 ELSE IF n = 2 THEN 300 ELSE IF n = 3 THEN 500 ELSE 800)

\* 50 x combo for a combo above 0
ComboBonus(combo) == IF combo > 0 THEN 50 * combo ELSE 0

\* C11 as stated: for every clear of n lines, T-Spin info, combo and level,
\* calculateScore adds exactly (base + comboBonus) x level, base being the
\* value of the table, comboBonus 50 x the combo after the increment when
\* that is above 0, level the level in effect when the clear is scored.
C11_ScoreIsTableBasePlusCombo ==
    \A c \in ScoredClears :
        LET r == calculateScore(gameState, c[1], c[2])
        IN  /\ r.combo = gameState.combo + 1
            /\ r.score = gameState.score
                         + (TableBase(c[1], c[2]) + ComboBonus(r.combo))
                           * gameState.level

\* C11, amended: the same, with the base the value of the table taken 1.5
\* times, floored, when the clear is Back-to-Back (it sets b2b).
C11_ScoreIsBasePlusCombo ==
    \A c \in ScoredClears :
        LET r == calculateScore(gameState, c[1], c[2])
            table == TableBase(c[1], c[2])
            base == IF r.b2b THEN (3 * table) \div 2 ELSE table
        IN  /\ r.combo = gameState.combo + 1
            /\ r.score = gameState.score
                         + (base + ComboBonus(r.combo)) * gameState.level

\* clears have been scored up to level 2, in a combo, the last one special
C11_ScoredAtLevelTwo ==
    /\ gameState.level = 2
    /\ gameState.combo >= 1
    /\ gameState.lastWasSpecial
    /\ gameState.score > 0

\* a special clear, as C13 defines it: a full (non-Mini) T-Spin clear of any
\* line count, or a 4-line clear that is no T-Spin
SpecialClear(n, tSpinInfo) ==
    \/ tSpinInfo.isTSpin /\ ~tSpinInfo.isMini
    \/ ~tSpinInfo.isTSpin /\ n = 4

\* C12: a clear gets the 1.5x (floored) base and sets b2b exactly when it is
\* special and the previous scoring clear was special (lastWasSpecial);
\* otherwise b2b is false; lastWasSpecial becomes this clear's specialness.
\* Two consecutive 4-line clears at level 1 from combo -1 award 800 and 1250.
C12_BackToBack ==
    /\ \A c \in ScoredClears :
          LET r == calculateScore(gameState, c[1], c[2])
              special == SpecialClear(c[1], c[2])
              applies == special /\ gameState.lastWasSpecial
              table == TableBase(c[1], c[2])
              base == IF applies THEN (3 * table) \div 2 ELSE table
          IN  /\ r.b2b = applies
              /\ r.lastWasSpecial = special
              /\ r.score = gameState.score
                           + (base + ComboBonus(gameState.combo + 1)) * gameState.level
    /\ LET noSpin == [isTSpin |-> FALSE, isMini |-> FALSE]
           first == countLines(gameState, 4, noSpin)
           second == countLines(first, 4, noSpin)
       IN  (gameState.level = 1 /\ first.level = 1
            /\ gameState.combo = -1 /\ ~gameState.lastWasSpecial)
             =>  /\ first.score = gameState.score + 800
                 /\ ~first.b2b
                 /\ second.score = first.score + 1250
                 /\ second.b2b

\* C13: a clear counts as special (lastWasSpecial) exactly when it is a full
\* T-Spin clear of any line count or a 4-line non-spin clear; a T-Spin Mini
\* clear is not special.
C13_MiniIsNotSpecial ==
    \A c \in ScoredClears :
        calculateScore(gameState, c[1], c[2]).lastWasSpecial
            = SpecialClear(c[1], c[2])

(***************************************************************************)
(* C14, C15: rotation and rejected moves.                                  *)
(***************************************************************************)
\* the active piece of gs is where isValidPosition accepts it
PieceValid(gs) ==
    isValidPosition(gs.board, gs.currentPiece.x, gs.currentPiece.y,
                    gs.currentPiece.rotation, gs.currentPiece.type)

\* rotate(d) from gs turns the piece where it is, without a kick
TurnsInPlace(gs, d) ==
    LET there == rotatePiece(gs, d)
    IN  /\ there.currentPiece.rotation # gs.currentPiece.rotation
        /\ there.currentPiece.x = gs.currentPiece.x
        /\ there.currentPiece.y = gs.currentPiece.y

\* rotate(d) from gs turns the piece and moves it by a kick
TurnsWithKick(gs, d) ==
    LET there == rotatePiece(gs, d)
    IN  /\ there.currentPiece.rotation # gs.currentPiece.rotation
        /\ \/ there.currentPiece.x # gs.currentPiece.x
           \/ there.currentPiece.y # gs.currentPiece.y

\* C14: from a collision-free piece state, rotate(d) then rotate(-d) on the
\* same board returns the piece to its x, y and rotation when the first
\* rotation needed no kick; in every case both rotations leave the piece in
\* a position isValidPosition accepts.
C14_RotateThenInverse ==
    (gameState.currentPiece # NoPiece /\ PieceValid(gameState))
        => \A d \in {-1, 1, 2} :
              LET there == rotatePiece(gameState, d)
                  back == rotatePiece(there, -d)
              IN  /\ PieceValid(there)
                  /\ PieceValid(back)
                  /\ TurnsInPlace(gameState, d)
                        => back.currentPiece = gameState.currentPiece

\* the piece is on the board where one rotation turns it in place and
\* another needs a kick
C14_KickNeeded ==
    /\ gameState.currentPiece # NoPiece
    /\ ~gameState.gameOver
    /\ gameState.currentPiece.y >= 0
    /\ \E d \in {-1, 1, 2} : TurnsWithKick(gameState, d)
    /\ \E d \in {-1, 1, 2} : TurnsInPlace(gameState, d)

\* the move by dx collides
MoveBlocked(gs, dx) ==
    ~isValidPosition(gs.board, gs.currentPiece.x + dx, gs.currentPiece.y,
                     gs.currentPiece.rotation, gs.currentPiece.type)

\* the rotation by d collides in place and at every kick offset
RotationBlocked(gs, d) ==
    LET piece == gs.currentPiece
        to == (piece.rotation + d + 4) % 4
        offsets == {<<0, 0>>} \cup
                   {Kicks(piece.type, piece.rotation, to)[i] :
                       i \in DOMAIN Kicks(piece.type, piece.rotation, to)}
    IN  \A o \in offsets :
            ~isValidPosition(gs.board, piece.x + o[1], piece.y + o[2], to, piece.type)

\* C15: a move whose target collides, and a rotation that collides in place
\* and at every kick offset, leave the whole game state as it is: x, y,
\* rotation, lockTimer, lockResets, the grounded flag, board and score.
C15_RejectedInPlace ==
    gameState.currentPiece # NoPiece
        => /\ \A dx \in {-1, 1} :
                MoveBlocked(gameState, dx) => movePiece(gameState, dx) = gameState
           /\ \A d \in {-1, 1, 2} :
                RotationBlocked(gameState, d) => rotatePiece(gameState, d) = gameState

\* a grounded piece whose move and whose rotation are both rejected
C15_MoveAndRotationBlocked ==
    /\ gameState.currentPiece # NoPiece
    /\ ~gameState.gameOver
    /\ gameState.isLocked
    /\ \E dx \in {-1, 1} : MoveBlocked(gameState, dx)
    /\ \E d \in {-1, 1, 2} : RotationBlocked(gameState, d)

(***************************************************************************)
(* C16: the lock that completes the only row.                              *)
(***************************************************************************)
\* the board with the active piece written where a hard drop lands it
Landed(gs) ==
    placePiece(gs.board, [gs.currentPiece EXCEPT !.y = getGhostPosition(gs).y])

\* the bottom row is full and every row above it is empty
OnlyBottomRowFull(board) ==
    /\ RowIsFull(board, ROWS - 1)
    /\ \A i \in DOMAIN board : i \div COLS < ROWS - 1 => board[i] = 0

\* C16: a lock that completes the bottom row, that row being the only
\* non-empty one, clears exactly that row: the board the lock leaves is
\* entirely empty.
C16_SoleBottomRowCleared ==
    (gameState.currentPiece # NoPiece /\ ~gameState.gameOver /\ ~gameState.paused
     /\ OnlyBottomRowFull(Landed(gameState)))
        => \A js \in Streams : hardDrop(gameState, js).gs.board = EmptyBoard

(***************************************************************************)
(* C17: a tick of several intervals.                                       *)
(***************************************************************************)
\* C17: a tick of two gravity intervals processes two threshold crossings:
\* where no piece locks, it leaves the piece where two ticks of one interval
\* each leave it.
C17_TickOfTwoIntervals ==
    (gameState.currentPiece # NoPiece /\ ~gameState.gameOver /\ ~gameState.paused)
        => \A js \in Streams :
              LET once == update(gameState, input, 2 * FrameTime, js)
                  first == update(gameState, input, FrameTime, js)
                  twice == update(first.gs, first.input, FrameTime, js)
              IN  (once.locks = 0 /\ first.locks = 0 /\ twice.locks = 0)
                      => once.gs.currentPiece = twice.gs.currentPiece

(***************************************************************************)
(* C18, C19: the T-Spin classification.                                    *)
(***************************************************************************)
\* the active piece where a hard drop lands it
LandedPiece(gs) == [gs.currentPiece EXCEPT !.y = getGhostPosition(gs).y]

\* an accepted hard drop of gs, scored with the T-Spin status of the landed
\* piece against the board of gs, the board before the lock
ScoredOnBoardBefore(gs) ==
    LET piece == LandedPiece(gs)
        before == [gs EXCEPT
                     !.score = gs.score
                               + (piece.y - gs.currentPiece.y) * SCORES.HARD_DROP]
    IN  countLines(before, Len(FullRows(Landed(gs))), checkTSpin(gs.board, piece))

\* C18: the T-Spin status a lock scores with is that of the piece's corner
\* cells on the board as it stood before the lock wrote the piece: the
\* score, Back-to-Back state and combo a locking T leaves, in any of its 4
\* rotations, are those of that classification (stated where no earlier
\* clear is pending, so every full row is one this lock completes).
C18_TSpinFromBoardBeforeLock ==
    (gameState.currentPiece # NoPiece /\ ~gameState.gameOver /\ ~gameState.paused
     /\ gameState.currentPiece.type = "T" /\ ~isTopOut(LandedPiece(gameState))
     /\ timeouts = <<>>)
        => \A js \in Streams :
              LET locked == hardDrop(gameState, js).gs
                  expected == ScoredOnBoardBefore(gameState)
              IN  /\ locked.score = expected.score
                  /\ locked.lastWasSpecial = expected.lastWasSpecial
                  /\ locked.b2b = expected.b2b
                  /\ locked.combo = expected.combo

\* the cell (x, y) counts as filled for a corner
Filled(board, x, y) ==
    \/ x < 0
    \/ x >= COLS
    \/ y >= ROWS
    \/ (y >= 0 /\ board[y * COLS + x] # 0)

\* the corners of the 3x3 box at (x, y), and the front pair of each rotation
BoxCorners(x, y) == {<<x, y>>, <<x + 2, y>>, <<x, y + 2>>, <<x + 2, y + 2>>}

FrontPair(x, y, rotation) ==
    CASE rotation = 0 -> {<<x, y + 2>>, <<x + 2, y + 2>>}
      [] rotation = 1 -> {<<x, y>>, <<x, y + 2>>}
      [] rotation = 2 -> {<<x, y>>, <<x + 2, y>>}
      [] rotation = 3 -> {<<x + 2, y>>, <<x + 2, y + 2>>}

\* the boards checkTSpin is read on: the board of the state, and that board
\* with the active piece written where it lands
BoardsClassified ==
    {gameState.board} \cup
    (IF gameState.currentPiece # NoPiece THEN {Landed(gameState)} ELSE {})

\* C19: checkTSpin reports a T-Spin exactly when the piece is a T and at
\* least 3 of the 4 corners of its 3x3 box are filled; the T-Spin is Mini
\* unless both front corners of the rotation are filled; every other piece
\* reports no T-Spin.
C19_ThreeCornerRule ==
    \A board \in BoardsClassified :
    \A type \in PieceKinds :
    \A x \in -1..(COLS - 2) :
    \A y \in -2..(ROWS - 2) :
    \A rotation \in 0..3 :
        LET n == Cardinality({c \in BoxCorners(x, y) : Filled(board, c[1], c[2])})
            front == \A c \in FrontPair(x, y, rotation) : Filled(board, c[1], c[2])
            info == checkTSpin(board, [type |-> type, x |-> x, y |-> y,
                                       rotation |-> rotation])
        IN  /\ info.isTSpin = (type = "T" /\ n >= 3)
            /\ info.isMini = (info.isTSpin /\ ~front)

\* a T about to lock whose classification at the lock is a full T-Spin, and
\* one of its placements on that board is a T-Spin Mini
C19_TSpinClassified ==
    /\ gameState.currentPiece # NoPiece
    /\ ~gameState.gameOver
    /\ gameState.currentPiece.type = "T"
    /\ LET info == checkTSpin(Landed(gameState), LandedPiece(gameState))
       IN  info.isTSpin /\ ~info.isMini
    /\ \E x \in -1..(COLS - 2) : \E y \in -2..(ROWS - 2) : \E rotation \in 0..3 :
          checkTSpin(Landed(gameState),
                     [type |-> "T", x |-> x, y |-> y, rotation |-> rotation]).isMini

(***************************************************************************)
(* C20: lines and level.                                                   *)
(***************************************************************************)
\* the rows that the lock of a hard drop of gs completes: full once the
\* piece has landed, not full before
RowsCompleted(gs) ==
    {y \in 0..(ROWS - 1) : RowIsFull(Landed(gs), y) /\ ~RowIsFull(gs.board, y)}

\* C20: level = floor(lines / 10) + 1 in every state, and a lock adds to
\* lines exactly the number of rows it cleared, the rows it completed.
C20_LinesCountRowsCleared ==
    /\ gameState.level = (gameState.lines \div 10) + 1
    /\ (gameState.currentPiece # NoPiece /\ ~gameState.gameOver /\ ~gameState.paused
        /\ ~isTopOut(LandedPiece(gameState)))
          => \A js \in Streams :
                hardDrop(gameState, js).gs.lines
                    = gameState.lines + Cardinality(RowsCompleted(gameState))

(***************************************************************************)
(* C21: the lock timing state after a spawn and after a hold.              *)
(***************************************************************************)
\* the lock timing state of gs is reset: accumulator, timer, count, flag
TimingReset(gs) ==
    /\ gs.dropTimer = 0
    /\ gs.lockTimer = 0
    /\ gs.lockResets = 0
    /\ ~gs.isLocked

\* C21: the spawn that follows a lock, and an accepted hold (a swap or the
\* spawn of a new piece), leave dropTimer, lockTimer and lockResets at 0 and
\* the grounded flag false.
C21_SpawnAndHoldResetTiming ==
    (gameState.currentPiece # NoPiece /\ ~gameState.gameOver /\ ~gameState.paused)
        => \A js \in Streams :
              /\ ~isTopOut(LandedPiece(gameState))
                    => TimingReset(hardDrop(gameState, js).gs)
              /\ gameState.canHold
                    => TimingReset(holdCurrentPiece(gameState, js))

(***************************************************************************)
(* C22: rows counted once.                                                 *)
(***************************************************************************)
\* the rows a pending collapse is to remove
RowsOf(timeout) == {timeout.lines[k] : k \in DOMAIN timeout.lines}

\* C22: a full row detected, counted and scored by one lock is not detected
\* again by a later lock: no row is to be removed by two pending collapses
\* (the board does not move while both are pending, so the same index is the
\* same row).
C22_RowDetectedOnce ==
    \A i, j \in DOMAIN timeouts :
        i < j => RowsOf(timeouts[i]) \cap RowsOf(timeouts[j]) = {}

(***************************************************************************)
(* C23: a collapse scheduled before a reset.                               *)
(***************************************************************************)
\* a step in which a collapse scheduled before the reset runs: the session
\* started by the reset has cleared no row (lines = 0), so it has scheduled
\* none, and the oldest pending collapse fires
StaleCollapse ==
    /\ count.resets >= 1
    /\ gameState.lines = 0
    /\ Len(timeouts) > 0
    /\ timeouts' = Tail(timeouts)

\* C23: a row collapse scheduled before a reset never modifies the board of
\* the session the reset started.
C23_CollapseStaysInItsSession ==
    [][StaleCollapse => gameState'.board = gameState.board]_vars

(***************************************************************************)
(* C24: locking cannot be postponed forever.                               *)
(***************************************************************************)
\* a round of intents and a tick: two rotations by d, then a frame of one
\* gravity interval
SpinRound(gs, inp, d) ==
    update(rotatePiece(rotatePiece(gs, d), d), inp, FrameTime, StreamSpin)

\* C24: while ticks of positive elapsed time keep arriving, rotations between
\* the ticks cannot postpone the lock forever: no two rounds of rotations,
\* each ended by a tick, bring the session back, without a lock, to the
\* state it was in (the rounds could then be repeated for ever).
C24_NoStallCycle ==
    (gameState.currentPiece # NoPiece /\ ~gameState.gameOver /\ ~gameState.paused)
        => \A d \in {-1, 1} :
              LET first == SpinRound(gameState, input, d)
                  second == SpinRound(first.gs, first.input, d)
              IN  ~(/\ first.locks = 0
                    /\ second.locks = 0
                    /\ second.gs = gameState
                    /\ second.input = input)

(***************************************************************************)
(* C25: the piece the lock timer locks.                                    *)
(***************************************************************************)
\* the game state of a tick when updateLockTimer is called: updateInput and
\* updateGravity have run
AtLockTimer(gs, inp, dt) ==
    LET moved == updateInput(gs, inp, dt)
    IN  updateGravity(moved.gs, moved.input, dt)

\* the active piece of gs rests: one row down it collides
Resting(gs) ==
    ~isValidPosition(gs.board, gs.currentPiece.x, gs.currentPiece.y + 1,
                     gs.currentPiece.rotation, gs.currentPiece.type)

\* C25: a piece that the expiry of the lock timer locks is resting: at that
\* moment it cannot move down one row.  No piece is locked in mid-air.
C25_LockedPieceRests ==
    (gameState.currentPiece # NoPiece /\ ~gameState.gameOver /\ ~gameState.paused)
        => \A js \in Streams :
              update(gameState, input, QuarterTime, js).locks = 1
                  => Resting(AtLockTimer(gameState, input, QuarterTime))

(***************************************************************************)
(* C26: the active piece is collision-free.                                *)
(***************************************************************************)
\* C26: in every state where the session is not over, the active piece is
\* where isValidPosition accepts it, so that a lock never writes a cell that
\* is already occupied.
C26_ActivePieceCollisionFree ==
    (gameState.currentPiece # NoPiece /\ ~gameState.gameOver)
        => PieceValid(gameState)

\* C27: in every reachable state the high score is at least the score:
\* line-clear scoring, hard-drop points and soft-drop points all leave
\* highScore >= score.
C27_HighScoreAtLeastScore == gameState.highScore >= gameState.score

(***************************************************************************)
(* C28: the spawn position is always free.                                 *)
(***************************************************************************)
\* every cell of the piece lies above row 0
WhollyAbove(piece) ==
    \A c \in PieceCells[piece.type][piece.rotation] : piece.y + c[2] < 0

\* the piece gs holds is at the spawn column, row -SPAWN_ROW and rotation 0,
\* above the board, it passes isValidPosition and the session is not over
PlacedFree(gs) ==
    LET piece == gs.currentPiece
    IN  /\ piece.x = (COLS \div 2) - 2
        /\ piece.y = -SPAWN_ROW
        /\ piece.rotation = 0
        /\ WhollyAbove(piece)
        /\ isValidPosition(gs.board, piece.x, piece.y, piece.rotation, piece.type)
        /\ ~gs.gameOver

\* spawnPiece and the hold swap, run on the board as it is for every kind
\* of piece, place a piece that passes isValidPosition
SpawnPasses ==
    (gameState.currentPiece # NoPiece /\ ~gameState.gameOver /\ ~gameState.paused)
        => \A pieceType \in PieceKinds : \A js \in Streams :
              /\ PlacedFree(spawnPiece(
                     [gameState EXCEPT
                        !.nextPieces = <<pieceType>> \o Tail(gameState.nextPieces)],
                     js))
              /\ PlacedFree(holdCurrentPiece(
                     [gameState EXCEPT !.holdPiece = pieceType, !.canHold = TRUE],
                     js))
              /\ PlacedFree(holdCurrentPiece(
                     [gameState EXCEPT
                        !.holdPiece = "none",
                        !.canHold = TRUE,
                        !.nextPieces = <<pieceType>> \o Tail(gameState.nextPieces)],
                     js))

\* a step that ends the session is a lock that topped out: one piece locked,
\* nothing spawned, and the piece left in place has a cell above the board
EndsByTopOut ==
    (~gameState.gameOver /\ gameState'.gameOver)
        => /\ count'.locks = count.locks + 1
           /\ gameState'.nextPieces = gameState.nextPieces
           /\ isTopOut(gameState'.currentPiece)

\* C28: for every board and every kind of piece, the piece placed by
\* spawnPiece and by a hold swap at the spawn column, row -2, rotation 0 passes
\* isValidPosition, all of its cells lying above row 0; hence gameOver is
\* only ever set by the top-out branch of lockPiece.
C28_SpawnNeverEndsSession == []SpawnPasses /\ [][EndsByTopOut]_vars

\* a piece has been spawned over a stack that reaches row 0 in a column of
\* the piece, and the session goes on
C28_SpawnedOverFullColumn ==
    /\ count.locks >= 1
    /\ gameState.currentPiece # NoPiece
    /\ ~gameState.gameOver
    /\ gameState.currentPiece.y = -SPAWN_ROW
    /\ gameState.currentPiece.rotation = 0
    /\ \E c \in PieceCells[gameState.currentPiece.type][0] :
          gameState.board[gameState.currentPiece.x + c[1]] # 0

====
